---- MODULE Spec2Model ----
(***************************************************************************)
(* MyndReader API: the recommendation engine (app/recommender.py), the     *)
(* reading-list handlers (app/routes/users.py) and the store they share.   *)
(*                                                                         *)
(* Numbers.  Ratings are kept in tenths (46 is 4.6), comfort coefficients  *)
(* in tenths (9 is 0.9), profile weights in halves (4 is 2.0).  Scores of  *)
(* the personalized path are exact rationals [n, d]; the cold-start score  *)
(* is an IEEE-754 binary64 value [exp, mant], because its claim is about   *)
(* exact equality of floating-point results.  An optional value is a       *)
(* sequence of length at most one: <<>> is Python's None, <<v>> is v.      *)
(***************************************************************************)
EXTENDS Integers, Sequences, FiniteSets, TLC

VARIABLES readings, resp, calls

vars == <<readings, resp, calls>>

-----------------------------------------------------------------------------
(* Optional values and Python truthiness *)

None == <<>>

Some(v) == <<v>>

Val(o) == o[1]

\* bool(x) of an Optional[float] / Optional[int]: None and 0 are falsy
TruthyNum(o) == o # None /\ Val(o) # 0

\* bool(x) of an Optional[List]: None and [] are falsy
TruthyList(o) == o # None /\ Val(o) # <<>>

Range(s) == {s[i] : i \in 1..Len(s)}

Min2(a, b) == IF a <= b THEN a ELSE b

-----------------------------------------------------------------------------
(* Exact rationals *)

RECURSIVE Gcd(_, _)
Gcd(a, b) == IF b = 0 THEN a ELSE Gcd(b, a % b)

AbsInt(a) == IF a < 0 THEN -a ELSE a

Rat(n, d) ==
    LET s == IF d < 0 THEN -1 ELSE 1
        g == Gcd(AbsInt(n), AbsInt(d))
    IN  [n |-> (s * n) \div g, d |-> (s * d) \div g]

RInt(i) == [n |-> i, d |-> 1]

RAdd(a, b) == Rat(a.n * b.d + b.n * a.d, a.d * b.d)

RSub(a, b) == Rat(a.n * b.d - b.n * a.d, a.d * b.d)

RMul(a, b) == Rat(a.n * b.n, a.d * b.d)

RDiv(a, b) == Rat(a.n * b.d, a.d * b.n)

RLt(a, b) == a.n * b.d < b.n * a.d

RLe(a, b) == a.n * b.d <= b.n * a.d

RAbs(a) == [n |-> AbsInt(a.n), d |-> a.d]

RMax(a, b) == IF RLt(a, b) THEN b ELSE a

RZero == RInt(0)

RECURSIVE RSum(_)
RSum(s) == IF s = <<>> THEN RZero ELSE RAdd(Head(s), RSum(Tail(s)))

-----------------------------------------------------------------------------
(* IEEE-754 binary64, round-to-nearest-even.  A positive normal double is  *)
(* [exp, mant] with mant a sequence of MantBits bits, mant[1] = 1, and     *)
(* value 1.mant[2..] * 2^exp.  Python floats and the Float columns of      *)
(* app/models.py are binary64.                                             *)

MantBits == 53

RECURSIVE Normalise(_, _, _)
\* <<n', d', e>> with n/d = (n'/d') * 2^e and d' <= n' < 2d'   (n, d > 0)
Normalise(n, d, e) ==
    IF n < d THEN Normalise(2 * n, d, e - 1)
    ELSE IF n >= 2 * d THEN Normalise(n, 2 * d, e + 1)
    ELSE <<n, d, e>>

RECURSIVE IncBits(_)
\* the bit string plus one; the carry out of an all-ones string is dropped
IncBits(b) ==
    IF b = <<>> THEN <<>>
    ELSE IF b[Len(b)] = 0 THEN [b EXCEPT ![Len(b)] = 1]
    ELSE Append(IncBits(SubSeq(b, 1, Len(b) - 1)), 0)

RECURSIVE DecBits(_)
DecBits(b) ==
    IF b = <<>> THEN <<>>
    ELSE IF b[Len(b)] = 1 THEN [b EXCEPT ![Len(b)] = 0]
    ELSE Append(DecBits(SubSeq(b, 1, Len(b) - 1)), 1)

AllOnes(b) == \A i \in 1..Len(b) : b[i] = 1

PowerOfTwo(b) == \A i \in 2..Len(b) : b[i] = 0

\* the next double above x, and the next below
FSucc(x) ==
    IF AllOnes(x.mant)
    THEN [exp |-> x.exp + 1, mant |-> [i \in 1..MantBits |-> IF i = 1 THEN 1 ELSE 0]]
    ELSE [exp |-> x.exp, mant |-> IncBits(x.mant)]

FPred(x) ==
    IF PowerOfTwo(x.mant)
    THEN [exp |-> x.exp - 1, mant |-> [i \in 1..MantBits |-> 1]]
    ELSE [exp |-> x.exp, mant |-> DecBits(x.mant)]

\* round a truncated quotient with remainder rem (of divisor d) to nearest, ties to even
FRound(e, bits, rem, d) ==
    LET t == [exp |-> e, mant |-> bits]
    IN  IF 2 * rem > d \/ (2 * rem = d /\ bits[MantBits] = 1) THEN FSucc(t) ELSE t

RECURSIVE RatioBits(_, _, _, _)
RatioBits(r, d, k, acc) ==
    IF k = 0 THEN [bits |-> acc, rem |-> r]
    ELSE LET r2 == 2 * r
             b  == IF r2 >= d THEN 1 ELSE 0
         IN  RatioBits(r2 - b * d, d, k - 1, Append(acc, b))

\* the double nearest to n/d (n, d > 0): what parsing a decimal literal yields
FromRatio(n, d) ==
    LET nd == Normalise(n, d, 0)
        q  == RatioBits(nd[1] - nd[2], nd[2], MantBits - 1, <<1>>)
    IN  FRound(nd[3], q.bits, q.rem, nd[2])

RECURSIVE DivBits(_, _, _, _, _, _)
\* long division of the mantissa (followed by zeros) by k
DivBits(m, k, i, r, acc, lz) ==
    IF Len(acc) = MantBits THEN [bits |-> acc, rem |-> r, lz |-> lz]
    ELSE LET inb == IF i <= MantBits THEN m[i] ELSE 0
             r2  == 2 * r + inb
             q   == IF r2 >= k THEN 1 ELSE 0
             r3  == r2 - q * k
         IN  IF acc = <<>> /\ q = 0
             THEN DivBits(m, k, i + 1, r3, acc, lz + 1)
             ELSE DivBits(m, k, i + 1, r3, Append(acc, q), lz)

\* x / float(k) for a small integer k >= 1
FDivInt(x, k) ==
    LET q == DivBits(x.mant, k, 1, 0, <<>>, 0)
    IN  FRound(x.exp - q.lz, q.bits, q.rem, k)

RECURSIVE AddBits(_, _, _, _)
\* the sum of two bit strings of equal length, from the last bit to the first; c is
\* the carry, acc the bits already summed; the carry out is dropped
AddBits(a, b, c, acc) ==
    IF Len(acc) = Len(a) THEN acc
    ELSE LET i == Len(a) - Len(acc)
             t == a[i] + b[i] + c
         IN  AddBits(a, b, t \div 2, <<t % 2>> \o acc)

RECURSIVE BitsValue(_)
BitsValue(b) == IF b = <<>> THEN 0 ELSE 2 * BitsValue(SubSeq(b, 1, Len(b) - 1)) + b[Len(b)]

\* x + y for doubles x, y > 0 whose exponents are a few binades apart: the exact sum
\* of the aligned significands, rounded to nearest, ties to even
FAdd(x, y) ==
    LET hi == IF x.exp >= y.exp THEN x ELSE y
        lo == IF x.exp >= y.exp THEN y ELSE x
        k == hi.exp - lo.exp
        zeros == [i \in 1..k |-> 0]
        sum == AddBits(<<0>> \o hi.mant \o zeros, <<0>> \o zeros \o lo.mant, 0, <<>>)
        up == sum[1] = 1
        bits == IF up THEN SubSeq(sum, 1, MantBits) ELSE SubSeq(sum, 2, MantBits + 1)
        tail == IF up THEN SubSeq(sum, MantBits + 1, Len(sum))
                ELSE SubSeq(sum, MantBits + 2, Len(sum))
    IN  FRound(IF up THEN hi.exp + 1 ELSE hi.exp, bits, BitsValue(tail),
               2 ^ Len(tail))

RECURSIVE FSum(_)
\* sum() of a non-empty list of doubles, left to right (0 + x is x)
FSum(xs) ==
    IF Len(xs) = 1 THEN xs[1] ELSE FAdd(FSum(SubSeq(xs, 1, Len(xs) - 1)), xs[Len(xs)])

-----------------------------------------------------------------------------
(* The store: users, the book catalogue and the readings table *)

Users == {1, 2}

Statuses == {"reading", "completed", "want_to_read", "abandoned"}

ComfortLevels == <<"same_old", "comfort_zone", "balanced", "adventurous", "completely_new">>

\* rows of the books table with their genres and authors relationships
Books ==
    <<  [id |-> 1, genres |-> <<"Fantasy", "SciFi">>, authors |-> <<"Tolkien">>,
         average_rating |-> Some(46), page_count |-> Some(300),
         ratings_count |-> Some(500), language |-> Some("en")],
        [id |-> 2, genres |-> <<"Fantasy">>, authors |-> <<"Tolkien", "Lewis">>,
         average_rating |-> Some(46), page_count |-> Some(200),
         ratings_count |-> Some(100), language |-> Some("en")],
        [id |-> 3, genres |-> <<"Mystery">>, authors |-> <<"Christie">>,
         average_rating |-> Some(40), page_count |-> None,
         ratings_count |-> Some(150), language |-> None],
        [id |-> 4, genres |-> <<"SciFi">>, authors |-> <<>>,
         average_rating |-> None, page_count |-> Some(100),
         ratings_count |-> Some(50), language |-> Some("fr")]  >>

BookIds == DOMAIN Books

\* a row of the readings table
Reading(id, user_id, book_id, rating, status) ==
    [id |-> id, user_id |-> user_id, book_id |-> book_id, rating |-> rating, status |-> status]

-----------------------------------------------------------------------------
(* BookRecommender: history and profile *)

\* variant: abandoned interactions also count as history
history_with_abandoned(store, user_id) ==
    LET keep(r) == r.user_id = user_id /\ r.status \in {"completed", "reading", "abandoned"}
    IN  SelectSeq(store, keep)

get_user_reading_history(store, user_id) ==
    LET keep(r) == r.user_id = user_id /\ r.status \in {"completed", "reading"}
    IN  SelectSeq(store, keep)

\* variant: a poorly rated book counts for nothing
reading_weight_drop_low(rating) ==
    IF TruthyNum(rating) /\ Val(rating) >= 40 THEN 4
    ELSE IF TruthyNum(rating) /\ Val(rating) <= 20 THEN 0
    ELSE 2

\* the per-interaction weight, in halves
reading_weight(rating) ==
    IF TruthyNum(rating) /\ Val(rating) >= 40 THEN 4
    ELSE IF TruthyNum(rating) /\ Val(rating) <= 20 THEN 1
    ELSE 2

RECURSIVE SumSeq(_)
SumSeq(s) == IF s = <<>> THEN 0 ELSE Head(s) + SumSeq(Tail(s))

\* Counter accumulation over the names of one relationship (genres or authors)
name_counts(rs, field) ==
    LET names == UNION {Range(Books[rs[i].book_id][field]) : i \in 1..Len(rs)}
        w(name) == SumSeq([i \in 1..Len(rs) |->
                              IF name \in Range(Books[rs[i].book_id][field])
                              THEN reading_weight(rs[i].rating) ELSE 0])
    IN  [name \in names |-> w(name)]

extract_user_preferences(rs) ==
    IF rs = <<>> THEN None
    ELSE
    LET rated(r) == TruthyNum(r.rating)
        paged(r) == TruthyNum(Books[r.book_id].page_count)
        spoken(r) == Books[r.book_id].language # None
        ratings == SelectSeq(rs, rated)
        page_counts == SelectSeq(rs, paged)
        rt == [i \in 1..Len(ratings) |-> Val(ratings[i].rating)]
        pg == [i \in 1..Len(page_counts) |-> Val(Books[page_counts[i].book_id].page_count)]
        langs == SelectSeq(rs, spoken)
    IN  Some([genres |-> name_counts(rs, "genres"),
              authors |-> name_counts(rs, "authors"),
              avg_rating |-> IF ratings # <<>>
                             THEN Rat(SumSeq(rt), 10 * Len(ratings))
                             ELSE RInt(3),
              avg_page_count |-> IF page_counts # <<>>
                                 THEN Some(Rat(SumSeq(pg), Len(page_counts)))
                                 ELSE None,
              languages |-> [i \in 1..Len(langs) |-> Val(Books[langs[i].book_id].language)],
              total_books |-> Len(rs)])

-----------------------------------------------------------------------------
(* BookRecommender: comfort policy, coefficients in tenths *)

\* variant: adventurous keeps the balanced level's randomness
weights_flat_randomness(comfort_level) ==
    CASE comfort_level = "same_old" ->
            [genre_similarity |-> 9, author_similarity |-> 8, rating_similarity |-> 7,
             page_count_similarity |-> 6, novelty_penalty |-> 9, randomness |-> 1]
      [] comfort_level = "comfort_zone" ->
            [genre_similarity |-> 7, author_similarity |-> 6, rating_similarity |-> 5,
             page_count_similarity |-> 4, novelty_penalty |-> 6, randomness |-> 2]
      [] comfort_level = "balanced" ->
            [genre_similarity |-> 5, author_similarity |-> 4, rating_similarity |-> 4,
             page_count_similarity |-> 3, novelty_penalty |-> 3, randomness |-> 3]
      [] comfort_level = "adventurous" ->
            [genre_similarity |-> 3, author_similarity |-> 2, rating_similarity |-> 3,
             page_count_similarity |-> 2, novelty_penalty |-> 1, randomness |-> 3]
      [] comfort_level = "completely_new" ->
            [genre_similarity |-> 1, author_similarity |-> 1, rating_similarity |-> 2,
             page_count_similarity |-> 1, novelty_penalty |-> -3, randomness |-> 7]

\* variant: the bonus for new genres starts one level early
weights_adventurous_bonus(comfort_level) ==
    CASE comfort_level = "same_old" ->
            [genre_similarity |-> 9, author_similarity |-> 8, rating_similarity |-> 7,
             page_count_similarity |-> 6, novelty_penalty |-> 9, randomness |-> 1]
      [] comfort_level = "comfort_zone" ->
            [genre_similarity |-> 7, author_similarity |-> 6, rating_similarity |-> 5,
             page_count_similarity |-> 4, novelty_penalty |-> 6, randomness |-> 2]
      [] comfort_level = "balanced" ->
            [genre_similarity |-> 5, author_similarity |-> 4, rating_similarity |-> 4,
             page_count_similarity |-> 3, novelty_penalty |-> 3, randomness |-> 3]
      [] comfort_level = "adventurous" ->
            [genre_similarity |-> 3, author_similarity |-> 2, rating_similarity |-> 3,
             page_count_similarity |-> 2, novelty_penalty |-> -1, randomness |-> 5]
      [] comfort_level = "completely_new" ->
            [genre_similarity |-> 1, author_similarity |-> 1, rating_similarity |-> 2,
             page_count_similarity |-> 1, novelty_penalty |-> -3, randomness |-> 7]

calculate_comfort_level_weights(comfort_level) ==
    CASE comfort_level = "same_old" ->
            [genre_similarity |-> 9, author_similarity |-> 8, rating_similarity |-> 7,
             page_count_similarity |-> 6, novelty_penalty |-> 9, randomness |-> 1]
      [] comfort_level = "comfort_zone" ->
            [genre_similarity |-> 7, author_similarity |-> 6, rating_similarity |-> 5,
             page_count_similarity |-> 4, novelty_penalty |-> 6, randomness |-> 2]
      [] comfort_level = "balanced" ->
            [genre_similarity |-> 5, author_similarity |-> 4, rating_similarity |-> 4,
             page_count_similarity |-> 3, novelty_penalty |-> 3, randomness |-> 3]
      [] comfort_level = "adventurous" ->
            [genre_similarity |-> 3, author_similarity |-> 2, rating_similarity |-> 3,
             page_count_similarity |-> 2, novelty_penalty |-> 1, randomness |-> 5]
      [] comfort_level = "completely_new" ->
            [genre_similarity |-> 1, author_similarity |-> 1, rating_similarity |-> 2,
             page_count_similarity |-> 1, novelty_penalty |-> -3, randomness |-> 7]

-----------------------------------------------------------------------------
(* BookRecommender: the scorer *)

\* random.random() is modelled as rnd / RandDenom with rnd in 0..RandDenom-1
RandDenom == 2

Tenths(w) == Rat(w, 10)

\* sum(user_prefs[...].values()), in halves
total_weight(counts) ==
    LET RECURSIVE T(_)
        T(X) == IF X = {} THEN 0
                ELSE LET x == CHOOSE y \in X : TRUE IN counts[x] + T(X \ {x})
    IN  T(DOMAIN counts)

\* the share of the profile's total weight held by the names of `names` the profile knows
match_share(names, counts) ==
    LET total == SumSeq([i \in 1..Len(names) |->
                            IF names[i] \in DOMAIN counts THEN counts[names[i]] ELSE 0])
    IN  Rat(total, total_weight(counts))

known_names(names, counts) ==
    LET known(x) == x \in DOMAIN counts IN SelectSeq(names, known)

new_names(names, counts) ==
    LET new(x) == x \notin DOMAIN counts IN SelectSeq(names, new)

\* the six terms of the score; a term that does not fire is absent from `fired` and 0
score_terms(book, user_prefs, weights, rnd) ==
    LET has_genres  == book.genres # <<>> /\ DOMAIN user_prefs.genres # {}
        has_authors == book.authors # <<>> /\ DOMAIN user_prefs.authors # {}
        has_rating  == TruthyNum(book.average_rating) /\ user_prefs.avg_rating.n # 0
        has_pages   == TruthyNum(book.page_count) /\ user_prefs.avg_page_count # None
                          /\ Val(user_prefs.avg_page_count).n # 0
        new_genres  == new_names(book.genres, user_prefs.genres)
        has_novelty == has_genres /\ new_genres # <<>>
        rating_diff == RAbs(RSub(Rat(Val(book.average_rating), 10), user_prefs.avg_rating))
        pages       == RInt(Val(book.page_count))
        page_diff   == RAbs(RSub(pages, Val(user_prefs.avg_page_count)))
        max_diff    == RMax(pages, Val(user_prefs.avg_page_count))
    IN  [fired |-> {t \in {"genre", "author", "rating", "page", "novelty"} :
                        \/ t = "genre" /\ has_genres
                        \/ t = "author" /\ has_authors
                        \/ t = "rating" /\ has_rating
                        \/ t = "page" /\ has_pages
                        \/ t = "novelty" /\ has_novelty} \cup {"randomness"},
         genre |-> IF has_genres
                   THEN RMul(match_share(book.genres, user_prefs.genres),
                             Tenths(weights.genre_similarity))
                   ELSE RZero,
         author |-> IF has_authors
                    THEN RMul(match_share(book.authors, user_prefs.authors),
                              Tenths(weights.author_similarity))
                    ELSE RZero,
         rating |-> IF has_rating
                    THEN RMul(RSub(RInt(1), RDiv(rating_diff, RInt(5))),
                              Tenths(weights.rating_similarity))
                    ELSE RZero,
         page |-> IF has_pages
                  THEN RMul(RSub(RInt(1), RDiv(page_diff, max_diff)),
                            Tenths(weights.page_count_similarity))
                  ELSE RZero,
         novelty |-> IF has_novelty
                     THEN RMul(Tenths(weights.novelty_penalty),
                               Rat(Len(new_genres), Len(book.genres)))
                     ELSE RZero,
         randomness |-> RMul(Rat(rnd, RandDenom), Tenths(weights.randomness)),
         \* what each term that fired divided by: total_genre_weight, total_author_weight
         \* and max_diff
         divisors |-> [genre |-> IF has_genres
                                 THEN Some(Rat(total_weight(user_prefs.genres), 2)) ELSE None,
                       author |-> IF has_authors
                                  THEN Some(Rat(total_weight(user_prefs.authors), 2)) ELSE None,
                       page |-> IF has_pages THEN Some(max_diff) ELSE None]]

\* variant: the author reasons are appended before the genre reasons
score_reasons_authors_first(book, user_prefs, weights, terms) ==
    LET genre_reasons  == IF "genre" \in terms.fired
                          THEN LET k == known_names(book.genres, user_prefs.genres)
                               IN  [i \in 1..Len(k) |-> <<"Matches your favorite genre: ", k[i]>>]
                          ELSE <<>>
        author_reasons == IF "author" \in terms.fired
                          THEN LET k == known_names(book.authors, user_prefs.authors)
                               IN  [i \in 1..Len(k) |-> <<"By author you've enjoyed: ", k[i]>>]
                          ELSE <<>>
        rating_reasons == IF "rating" \in terms.fired /\ Val(book.average_rating) >= 40
                          THEN << <<"Highly rated book">> >>
                          ELSE <<>>
        novelty_reasons == IF "novelty" \in terms.fired /\ weights.novelty_penalty < 0
                           THEN << <<"Explores new genres: ",
                                     new_names(book.genres, user_prefs.genres)>> >>
                           ELSE <<>>
    IN  author_reasons \o genre_reasons \o rating_reasons \o novelty_reasons

score_reasons(book, user_prefs, weights, terms) ==
    LET genre_reasons  == IF "genre" \in terms.fired
                          THEN LET k == known_names(book.genres, user_prefs.genres)
                               IN  [i \in 1..Len(k) |-> <<"Matches your favorite genre: ", k[i]>>]
                          ELSE <<>>
        author_reasons == IF "author" \in terms.fired
                          THEN LET k == known_names(book.authors, user_prefs.authors)
                               IN  [i \in 1..Len(k) |-> <<"By author you've enjoyed: ", k[i]>>]
                          ELSE <<>>
        rating_reasons == IF "rating" \in terms.fired /\ Val(book.average_rating) >= 40
                          THEN << <<"Highly rated book">> >>
                          ELSE <<>>
        novelty_reasons == IF "novelty" \in terms.fired /\ weights.novelty_penalty < 0
                           THEN << <<"Explores new genres: ",
                                     new_names(book.genres, user_prefs.genres)>> >>
                           ELSE <<>>
    IN  genre_reasons \o author_reasons \o rating_reasons \o novelty_reasons

\* variant: every term floored at 0 before the sum
clamp_each_term(terms) ==
    LET floor(t) == IF RLt(RZero, t) THEN t ELSE RZero
    IN  RSum(<<floor(terms.genre), floor(terms.author), floor(terms.rating),
               floor(terms.page), floor(terms.novelty), floor(terms.randomness)>>)

\* max(0, score): the floor of the total
clamp_total(terms) ==
    LET total == RSum(<<terms.genre, terms.author, terms.rating, terms.page,
                        terms.novelty, terms.randomness>>)
    IN  IF RLt(RZero, total) THEN total ELSE RZero

\* variant: the rating term is the gap rating_diff / 5 times the coefficient, without "1 -"
score_rating_gap(book, user_prefs, weights, rnd) ==
    LET t0 == score_terms(book, user_prefs, weights, rnd)
        terms == [t0 EXCEPT !.rating = IF "rating" \in t0.fired
                                       THEN RSub(Tenths(weights.rating_similarity), @)
                                       ELSE @]
    IN  [score |-> clamp_total(terms),
         reasons |-> score_reasons(book, user_prefs, weights, terms),
         terms |-> terms]

score_book_similarity(book, user_prefs, weights, rnd) ==
    LET terms == score_terms(book, user_prefs, weights, rnd)
    IN  [score |-> clamp_total(terms),
         reasons |-> score_reasons(book, user_prefs, weights, terms),
         terms |-> terms]

-----------------------------------------------------------------------------
(* The store's queries.  A query without ORDER BY delivers the rows of the *)
(* books table in an order the engine does not control: `order` is that    *)
(* order, a permutation of the book ids.                                   *)

Orders(S) ==
    {p \in [1..Cardinality(S) -> S] : \A i, j \in DOMAIN p : i # j => p[i] # p[j]}

table_scan(order) == [i \in 1..Len(order) |-> Books[order[i]]]

RECURSIVE Unique(_)
\* the legacy Query's de-duplication of entity rows: first occurrences, in order
Unique(rows) ==
    IF rows = <<>> THEN <<>>
    ELSE LET rest == Unique(SubSeq(rows, 1, Len(rows) - 1))
             last == rows[Len(rows)]
         IN  IF last \in Range(rest) THEN rest ELSE Append(rest, last)

RECURSIVE join_genres(_, _)
\* query.join(Book.genres).filter(Genre.name.in_(names)): one row per (book, genre) pair
join_genres(rows, names) ==
    IF rows = <<>> THEN <<>>
    ELSE LET b == Head(rows)
             wanted(g) == g \in Range(names)
             hits == SelectSeq(b.genres, wanted)
         IN  [i \in 1..Len(hits) |-> b] \o join_genres(Tail(rows), names)

\* a stable sort of s by key (key[i] is the key of s[i]), greatest key first: an
\* element is placed after every element whose key is not less than its own
StableSortDesc(s, key) ==
    LET RECURSIVE Ins(_, _)
        Ins(acc, i) == IF acc = <<>> THEN <<i>>
                       ELSE IF RLt(key[Head(acc)], key[i]) THEN <<i>> \o acc
                       ELSE <<Head(acc)>> \o Ins(Tail(acc), i)
        RECURSIVE Go(_, _)
        Go(acc, i) == IF i > Len(s) THEN acc ELSE Go(Ins(acc, i), i + 1)
        idx == Go(<<>>, 1)
    IN  [k \in 1..Len(s) |-> s[idx[k]]]

Take(s, n) == SubSeq(s, 1, Min2(n, Len(s)))

-----------------------------------------------------------------------------
(* BookRecommender: candidates, ranking, cold start *)

\* variant: abandoned books are not excluded
read_book_ids_without_abandoned(store, user_id) ==
    {store[i].book_id : i \in {j \in 1..Len(store) :
        store[j].user_id = user_id /\ store[j].status \in {"completed", "reading"}}}

read_book_ids(store, user_id) ==
    {store[i].book_id : i \in {j \in 1..Len(store) :
        store[j].user_id = user_id /\ store[j].status \in {"completed", "reading", "abandoned"}}}

get_candidate_books(store, user_id, request, order) ==
    LET unread(b)  == b.id \notin read_book_ids(store, user_id)
        rated(b)   == b.average_rating # None /\ Val(b.average_rating) >= Val(request.min_rating)
        short(b)   == b.page_count # None /\ Val(b.page_count) <= Val(request.max_page_count)
        q0 == table_scan(order)
        q1 == IF request.exclude_read THEN SelectSeq(q0, unread) ELSE q0
        q2 == IF TruthyNum(request.min_rating) THEN SelectSeq(q1, rated) ELSE q1
        q3 == IF TruthyNum(request.max_page_count) THEN SelectSeq(q2, short) ELSE q2
        q4 == IF TruthyList(request.preferred_genres)
              THEN join_genres(q3, Val(request.preferred_genres)) ELSE q3
    IN  Unique(q4)

\* variant: an ascending stable sort, then reversed (equal scores come out reversed)
sort_then_reverse(scored_books) ==
    LET asc == StableSortDesc(scored_books,
                              [i \in 1..Len(scored_books) |->
                                  RSub(RZero, scored_books[i].score)])
    IN  [i \in 1..Len(asc) |-> asc[Len(asc) + 1 - i]]

\* scored_books.sort(key=lambda x: x.score, reverse=True)
sort_by_score(scored_books) ==
    StableSortDesc(scored_books, [i \in 1..Len(scored_books) |-> scored_books[i].score])

ColdReasons == <<"Popular and highly rated book", "Great for discovering new preferences">>

\* the Float column's value for a rating written with one decimal
ToDouble(tenths) == FromRatio(tenths, 10)

\* book.average_rating / 5.0 for the ratings 0.1 .. 5.0, held as a tuple so that the
\* quotients are computed once
RatingQuotients == SubSeq([t \in 1..50 |-> FDivInt(ToDouble(t), 5)], 1, 50)

\* the doubles nearest to the decimal values rating / 5 (0.92 for 4.6)
DecimalQuotients == SubSeq([t \in 1..50 |-> FromRatio(2 * t, 100)], 1, 50)

\* variant: the score is the decimal quotient, as if computed in decimal arithmetic
cold_item_decimal(book) ==
    [book |-> book.id,
     score |-> DecimalQuotients[Val(book.average_rating)],
     reasons |-> ColdReasons]

cold_item(book) ==
    [book |-> book.id,
     score |-> RatingQuotients[Val(book.average_rating)],
     reasons |-> ColdReasons]

\* variant: order_by without .desc()
cold_start_ascending(request, order) ==
    LET popular(b) == /\ b.average_rating # None /\ Val(b.average_rating) >= 40
                      /\ b.ratings_count # None /\ Val(b.ratings_count) >= 100
        q0 == SelectSeq(table_scan(order), popular)
        q1 == IF TruthyList(request.preferred_genres)
              THEN join_genres(q0, Val(request.preferred_genres)) ELSE q0
        q2 == StableSortDesc(q1, [i \in 1..Len(q1) |-> RInt(-Val(q1[i].average_rating))])
        books == Unique(Take(q2, request.limit))
    IN  [i \in 1..Len(books) |-> cold_item(books[i])]

\* variant: no cold start, an empty history yields an empty result
cold_start_empty(request, order) == <<>>

\* a cold start that lets the comfort level decide how many books it returns
cold_start_by_comfort(request, order) ==
    LET popular(b) == /\ b.average_rating # None /\ Val(b.average_rating) >= 40
                      /\ b.ratings_count # None /\ Val(b.ratings_count) >= 100
        q0 == SelectSeq(table_scan(order), popular)
        q1 == IF TruthyList(request.preferred_genres)
              THEN join_genres(q0, Val(request.preferred_genres)) ELSE q0
        q2 == StableSortDesc(q1, [i \in 1..Len(q1) |-> RInt(Val(q1[i].average_rating))])
        n == IF request.comfort_level = "completely_new" THEN 1 ELSE request.limit
        books == Unique(Take(q2, n))
    IN  [i \in 1..Len(books) |-> cold_item(books[i])]

_recommend_for_new_user(request, order) ==
    LET popular(b) == /\ b.average_rating # None /\ Val(b.average_rating) >= 40
                      /\ b.ratings_count # None /\ Val(b.ratings_count) >= 100
        q0 == SelectSeq(table_scan(order), popular)
        q1 == IF TruthyList(request.preferred_genres)
              THEN join_genres(q0, Val(request.preferred_genres)) ELSE q0
        q2 == StableSortDesc(q1, [i \in 1..Len(q1) |-> RInt(Val(q1[i].average_rating))])
        books == Unique(Take(q2, request.limit))
    IN  [i \in 1..Len(books) |-> cold_item(books[i])]

\* rnd[b] is the value random.random() returns while candidate b is scored
recommend_books(store, user_id, request, order, rnd) ==
    LET history == get_user_reading_history(store, user_id)
    IN  IF history = <<>>
        THEN [path |-> "cold_start", candidates |-> <<>>, prefs |-> None,
              weights |-> None,
              items |-> _recommend_for_new_user(request, order)]
        ELSE
        LET user_prefs == Val(extract_user_preferences(history))
            weights == calculate_comfort_level_weights(request.comfort_level)
            candidates == get_candidate_books(store, user_id, request, order)
            scored_books == [i \in 1..Len(candidates) |->
                LET sc == score_book_similarity(candidates[i], user_prefs, weights,
                                                rnd[candidates[i].id])
                IN  [book |-> candidates[i].id, score |-> sc.score,
                     reasons |-> sc.reasons, terms |-> sc.terms]]
        IN  [path |-> "personalized", prefs |-> Some(user_prefs),
             weights |-> Some(weights),
             candidates |-> [i \in 1..Len(candidates) |-> candidates[i].id],
             items |-> Take(sort_by_score(scored_books), request.limit)]

-----------------------------------------------------------------------------
(* Requests and the inputs the handlers are driven with *)

MaxReadings == 2

MaxLimit == 2

Idle == [op |-> "idle"]

RecommendationRequest(comfort_level, limit, exclude_read, min_rating, max_page_count, preferred_genres) ==
    [comfort_level |-> comfort_level, limit |-> limit, exclude_read |-> exclude_read,
     min_rating |-> min_rating, max_page_count |-> max_page_count,
     preferred_genres |-> preferred_genres]

\* recommend_books calls that can be in progress at once (requests are served by a
\* pool of threads, each with its own session and its own BookRecommender)
Slots == {1, 2}

NoCall == [pc |-> "idle"]

NoCalls == [s \in Slots |-> NoCall]

\* ids a caller may name: the users and books that exist, and one that does not
CallUsers == Users \cup {3}

ReadBooks == {2, 3}

CallBooks == ReadBooks \cup {5}

NoDraw == [b \in BookIds |-> 0]

IdOrder == [i \in BookIds |-> i]

\* requests of the reading-list scenario: defaults, with and without exclusion
MainInputs ==
    {[user_id |-> u,
      request |-> RecommendationRequest("balanced", MaxLimit, x, None, None, None),
      order |-> IdOrder, rnd |-> NoDraw] : u \in CallUsers, x \in BOOLEAN}

ReverseOrder == [i \in BookIds |-> Len(Books) + 1 - i]

\* unfiltered requests at every comfort level: every delivery order without a draw,
\* and every random draw with the books delivered by ascending and by descending id
RankingInputs ==
    {[user_id |-> u,
      request |-> RecommendationRequest(ComfortLevels[l], MaxLimit, TRUE, None, None, None),
      order |-> o, rnd |-> NoDraw] :
        u \in Users, l \in DOMAIN ComfortLevels, o \in Orders(BookIds)}
    \cup
    {[user_id |-> u,
      request |-> RecommendationRequest(ComfortLevels[l], MaxLimit, TRUE, None, None, None),
      order |-> o, rnd |-> r] :
        u \in Users, l \in DOMAIN ComfortLevels,
        o \in {IdOrder, ReverseOrder}, r \in [BookIds -> 0..(RandDenom - 1)]}

\* filtered requests
FilterInputs ==
    {[user_id |-> u,
      request |-> RecommendationRequest("balanced", n, x, mr, mp, pg),
      order |-> o, rnd |-> NoDraw] :
        u \in Users, n \in 1..MaxLimit, x \in BOOLEAN,
        mr \in {None, Some(0), Some(42)}, mp \in {None, Some(0), Some(200)},
        pg \in {None, Some(<<>>), Some(<<"Fantasy", "SciFi">>), Some(<<"SciFi", "Mystery">>),
                Some(<<"Romance">>)},
        o \in Orders(BookIds)}

\* stores a few add_reading calls produce
SampleStores ==
    { << Reading(1, 1, 2, Some(50), "completed"), Reading(2, 1, 3, None, "abandoned"),
         Reading(3, 1, 4, None, "want_to_read"), Reading(4, 2, 1, Some(20), "want_to_read"),
         Reading(5, 2, 2, None, "abandoned") >>,
      << Reading(1, 1, 1, None, "reading"), Reading(2, 1, 4, Some(20), "completed"),
         Reading(3, 1, 3, None, "want_to_read"),
         Reading(4, 2, 3, Some(30), "completed"), Reading(5, 2, 2, Some(40), "abandoned") >> }

\* ratings an interaction can carry: add_reading stores any float, or none
ScoreRatings == {None, Some(0), Some(10), Some(20), Some(30), Some(40), Some(50)}

\* reading lists the profile is extracted from: one interaction of every rating with
\* every book, two interactions with books of different genres, and two interactions
\* with books that share a genre and an author and differ in rating
ScoreStores ==
    {<< Reading(1, 1, b, r, "completed") >> : b \in BookIds, r \in ScoreRatings}
    \cup {<< Reading(1, 1, 2, r1, "completed"), Reading(2, 1, 3, r2, "reading") >> :
              r1 \in {None, Some(0), Some(10), Some(50)}, r2 \in {None, Some(0), Some(50)}}
    \cup {<< Reading(1, 1, 1, Some(50), "completed"), Reading(2, 1, 2, Some(10), "completed"),
             Reading(3, 2, 3, Some(50), "abandoned") >>}

\* the profile extract_user_preferences builds from one unrated interaction with a
\* book by Christie that has no genre, no page count and no language
GenrelessProfile ==
    [genres |-> <<>>, authors |-> [a \in {"Christie"} |-> 2], avg_rating |-> RInt(3),
     avg_page_count |-> None, languages |-> <<>>, total_books |-> 1]

\* the profile extract_user_preferences builds from one unrated interaction with a
\* book stored with a page count of -50 (BookCreate accepts any integer), without
\* genres, authors or language
NegativePagesProfile ==
    [genres |-> <<>>, authors |-> <<>>, avg_rating |-> RInt(3),
     avg_page_count |-> Some(RInt(-50)), languages |-> <<>>, total_books |-> 1]

\* the profiles the scorer is called with: those of the store's users, and the two above
ScoreProfiles(store) ==
    {Val(extract_user_preferences(get_user_reading_history(store, u))) :
        u \in {v \in Users : get_user_reading_history(store, v) # <<>>}}
    \cup {GenrelessProfile, NegativePagesProfile}

\* candidates handed to the scorer: the catalogue's rows and rows with a missing or
\* zero rating, without authors, without pages, without genres, with unknown genres
ScoreItems ==
    Range(Books) \cup
    {   [id |-> 5, genres |-> <<"Mystery">>, authors |-> <<>>,
         average_rating |-> Some(40), page_count |-> None,
         ratings_count |-> Some(10), language |-> Some("en")],
        [id |-> 6, genres |-> <<"Fantasy">>, authors |-> <<>>,
         average_rating |-> Some(50), page_count |-> None,
         ratings_count |-> Some(10), language |-> None],
        [id |-> 7, genres |-> <<"Mystery", "Romance">>, authors |-> <<"Christie">>,
         average_rating |-> Some(0), page_count |-> Some(200),
         ratings_count |-> Some(0), language |-> Some("en")],
        [id |-> 8, genres |-> <<>>, authors |-> <<"Lewis">>,
         average_rating |-> Some(45), page_count |-> None,
         ratings_count |-> None, language |-> Some("en")],
        [id |-> 9, genres |-> <<"Romance", "Fantasy", "Western">>, authors |-> <<"Lewis", "Tolkien">>,
         average_rating |-> Some(30), page_count |-> Some(100),
         ratings_count |-> Some(20), language |-> Some("fr")],
        [id |-> 10, genres |-> <<"Fantasy">>, authors |-> <<"Tolkien">>,
         average_rating |-> Some(35), page_count |-> Some(0),
         ratings_count |-> Some(5), language |-> Some("en")],
        [id |-> 11, genres |-> <<"SciFi">>, authors |-> <<"Lewis">>,
         average_rating |-> Some(35), page_count |-> Some(-100),
         ratings_count |-> Some(5), language |-> Some("en")]   }

-----------------------------------------------------------------------------
(* Handlers.  Each runs to completion on a request and leaves its response *)
(* in resp; Deliver hands the response to the caller and ends the request. *)

\* POST /users/{user_id}/readings
AddReading(user_id, book_id, rating, status) ==
    /\ resp = Idle
    /\ UNCHANGED calls
    /\ LET exists == \E i \in 1..Len(readings) :
                        readings[i].user_id = user_id /\ readings[i].book_id = book_id
           row == Reading(Len(readings) + 1, user_id, book_id, rating, status)
       IN  IF user_id \notin Users \/ book_id \notin BookIds
           THEN resp' = [op |-> "add_reading", status |-> 404] /\ UNCHANGED readings
           ELSE IF exists
           THEN resp' = [op |-> "add_reading", status |-> 400] /\ UNCHANGED readings
           ELSE /\ Len(readings) < MaxReadings
                /\ readings' = Append(readings, row)
                /\ resp' = [op |-> "add_reading", status |-> 200, reading |-> row]

\* PUT /users/{user_id}/readings/{reading_id}; `fields` are the optional fields the body sets
UpdateReading(user_id, reading_id, book_id, fields, rating, status) ==
    /\ resp = Idle
    /\ UNCHANGED calls
    /\ LET found == reading_id \in 1..Len(readings) /\ readings[reading_id].user_id = user_id
           old == readings[reading_id]
           new == [old EXCEPT !.book_id = book_id,
                              !.rating = IF "rating" \in fields THEN rating ELSE @,
                              !.status = IF "status" \in fields THEN status ELSE @]
       IN  IF ~found
           THEN resp' = [op |-> "update_reading", status |-> 404] /\ UNCHANGED readings
           ELSE /\ readings' = [readings EXCEPT ![reading_id] = new]
                /\ resp' = [op |-> "update_reading", status |-> 200, reading |-> new]

\* sum(rec.score for rec in recommendations) / len(recommendations): rationals on the
\* personalized path, doubles on the cold-start path
avg_similarity(path, items) ==
    LET scores == [i \in 1..Len(items) |-> items[i].score]
    IN  IF path = "cold_start" THEN FDivInt(FSum(scores), Len(items))
        ELSE RDiv(RSum(scores), RInt(Len(items)))

\* POST /recommendations/{user_id}
GetRecommendations(inp) ==
    /\ resp = Idle
    /\ UNCHANGED <<readings, calls>>
    /\ IF inp.user_id \notin Users
       THEN resp' = [op |-> "get_recommendations", status |-> 404, user_id |-> inp.user_id]
       ELSE LET rec == recommend_books(readings, inp.user_id, inp.request, inp.order, inp.rnd)
            IN  resp' = [op |-> "get_recommendations",
                         status |-> IF rec.items = <<>> THEN 404 ELSE 200,
                         user_id |-> inp.user_id, request |-> inp.request,
                         path |-> rec.path, prefs |-> rec.prefs,
                         weights |-> rec.weights,
                         candidates |-> rec.candidates,
                         items |-> rec.items,
                         similarity_score |-> IF rec.items = <<>> THEN None
                                              ELSE Some(avg_similarity(rec.path, rec.items))]

\* BookRecommender.extract_user_preferences on the history of one user
ExtractPreferences(user_id) ==
    /\ resp = Idle
    /\ UNCHANGED <<readings, calls>>
    /\ LET history == get_user_reading_history(readings, user_id)
       IN  resp' = [op |-> "extract_user_preferences", user_id |-> user_id,
                    history |-> history, prefs |-> extract_user_preferences(history)]

\* BookRecommender.score_book_similarity on one candidate
ScoreBook(book, user_prefs, comfort_level, rnd) ==
    /\ resp = Idle
    /\ UNCHANGED <<readings, calls>>
    /\ LET weights == calculate_comfort_level_weights(comfort_level)
           sc == score_book_similarity(book, user_prefs, weights, rnd)
       IN  resp' = [op |-> "score_book_similarity", book |-> book, prefs |-> user_prefs,
                    comfort_level |-> comfort_level, weights |-> weights, rnd |-> rnd,
                    score |-> sc.score, reasons |-> sc.reasons, terms |-> sc.terms]

Deliver ==
    /\ resp # Idle
    /\ resp' = Idle
    /\ UNCHANGED <<readings, calls>>

-----------------------------------------------------------------------------
(* recommend_books step by step.  A call in progress keeps its locals in its  *)
(* slot of calls: every query against the store and the scoring loop are     *)
(* separate steps, so the steps of two calls can interleave in any order.    *)

\* recommend_books(user_id, request) is entered; `store` remembers the reading list
\* as it was at that moment
CallStart(slot, inp) ==
    /\ calls[slot].pc = "idle"
    /\ calls' = [calls EXCEPT ![slot] = [pc |-> "called", inp |-> inp, store |-> readings]]
    /\ UNCHANGED <<readings, resp>>

\* the history kept on an engine instance that all calls share
CallHistoryShared(slot) ==
    /\ calls[slot].pc = "called"
    /\ LET c == calls[slot]
           history == get_user_reading_history(readings, c.inp.user_id)
           mine == [pc |-> IF history = <<>> THEN "cold" ELSE "profile",
                    inp |-> c.inp, store |-> c.store, history |-> history]
       IN  calls' = [s \in Slots |->
                        IF s = slot THEN mine
                        ELSE IF calls[s].pc = "profile" /\ history # <<>>
                        THEN [calls[s] EXCEPT !.history = history]
                        ELSE calls[s]]
    /\ UNCHANGED <<readings, resp>>

\* user_readings = self.get_user_reading_history(user_id); if not user_readings: ...
CallHistory(slot) ==
    /\ calls[slot].pc = "called"
    /\ LET c == calls[slot]
           history == get_user_reading_history(readings, c.inp.user_id)
       IN  calls' = [calls EXCEPT ![slot] =
                        [pc |-> IF history = <<>> THEN "cold" ELSE "profile",
                         inp |-> c.inp, store |-> c.store, history |-> history]]
    /\ UNCHANGED <<readings, resp>>

\* return self._recommend_for_new_user(request); the query delivers its rows in `order`
CallCold(slot, order) ==
    /\ calls[slot].pc = "cold"
    /\ LET c == calls[slot]
       IN  calls' = [calls EXCEPT ![slot] =
                        [pc |-> "done", inp |-> c.inp, store |-> c.store,
                         path |-> "cold_start", order |-> order, rnd |-> NoDraw,
                         items |-> _recommend_for_new_user(c.inp.request, order)]]
    /\ UNCHANGED <<readings, resp>>

\* user_prefs = self.extract_user_preferences(user_readings);
\* weights = self.calculate_comfort_level_weights(request.comfort_level)
CallProfile(slot) ==
    /\ calls[slot].pc = "profile"
    /\ LET c == calls[slot]
       IN  calls' = [calls EXCEPT ![slot] =
                        [pc |-> "candidates", inp |-> c.inp, store |-> c.store,
                         user_prefs |-> Val(extract_user_preferences(c.history)),
                         weights |-> calculate_comfort_level_weights(c.inp.request.comfort_level)]]
    /\ UNCHANGED <<readings, resp>>

\* candidates = self.get_candidate_books(user_id, request); the query delivers its
\* rows in `order`
CallCandidates(slot, order) ==
    /\ calls[slot].pc = "candidates"
    /\ LET c == calls[slot]
       IN  calls' = [calls EXCEPT ![slot] =
                        [pc |-> "score", inp |-> c.inp, store |-> c.store,
                         user_prefs |-> c.user_prefs, weights |-> c.weights, order |-> order,
                         candidates |-> get_candidate_books(readings, c.inp.user_id,
                                                            c.inp.request, order)]]
    /\ UNCHANGED <<readings, resp>>

\* the scoring loop, the sort and the truncation; rnd[b] is the value random.random()
\* returns while book b is scored
CallScore(slot, rnd) ==
    /\ calls[slot].pc = "score"
    /\ LET c == calls[slot]
           scored_books == [i \in 1..Len(c.candidates) |->
               LET sc == score_book_similarity(c.candidates[i], c.user_prefs, c.weights,
                                               rnd[c.candidates[i].id])
               IN  [book |-> c.candidates[i].id, score |-> sc.score,
                    reasons |-> sc.reasons, terms |-> sc.terms]]
       IN  calls' = [calls EXCEPT ![slot] =
                        [pc |-> "done", inp |-> c.inp, store |-> c.store,
                         path |-> "personalized", order |-> c.order, rnd |-> rnd,
                         items |-> Take(sort_by_score(scored_books), c.inp.request.limit)]]
    /\ UNCHANGED <<readings, resp>>

\* the caller takes the list; nothing of the call is kept
CallReturn(slot) ==
    /\ calls[slot].pc = "done"
    /\ calls' = [calls EXCEPT ![slot] = NoCall]
    /\ UNCHANGED <<readings, resp>>

-----------------------------------------------------------------------------
(* Specifications *)

Init == readings = <<>> /\ resp = Idle /\ calls = NoCalls

Next ==
    \/ \E u \in CallUsers, b \in CallBooks, s \in Statuses : AddReading(u, b, None, s)
    \/ \E u \in CallUsers, id \in 1..(MaxReadings + 1), b \in ReadBooks,
          f \in SUBSET {"status"}, s \in Statuses : UpdateReading(u, id, b, f, None, s)
    \/ \E inp \in MainInputs : GetRecommendations(inp)
    \/ Deliver

\* the reading list under any sequence of add_reading / update_reading calls
Spec == Init /\ [][Next]_vars

InitRequest == readings \in SampleStores /\ resp = Idle /\ calls = NoCalls

NextRequest ==
    \/ \E inp \in RankingInputs \cup FilterInputs : GetRecommendations(inp)
    \/ Deliver

\* recommendation requests of every shape against stores with a history
SpecRequest == InitRequest /\ [][NextRequest]_vars

InitScore == readings \in ScoreStores /\ resp = Idle /\ calls = NoCalls

NextScore ==
    \/ \E u \in Users : ExtractPreferences(u)
    \/ \E b \in ScoreItems, p \in ScoreProfiles(readings), l \in Range(ComfortLevels),
          rnd \in 0..(RandDenom - 1) : ScoreBook(b, p, l, rnd)
    \/ Deliver

\* the profile extractor and the scorer called on their own
SpecScore == InitScore /\ [][NextScore]_vars

\* requests made at the same time: both users, two comfort levels, two limits,
\* with and without preferred genres
ConcurrentInputs ==
    {[user_id |-> u,
      request |-> RecommendationRequest(l, n, TRUE, None, None, pg)] :
        u \in Users, l \in {"balanced", "completely_new"}, n \in {1, MaxLimit},
        pg \in {None, Some(<<"Fantasy", "SciFi">>)}}

ConcurrentOrders == {IdOrder, ReverseOrder}

ConcurrentDraws == {NoDraw, [b \in BookIds |-> IF b = 1 THEN RandDenom - 1 ELSE 0]}

InitConcurrent == readings \in SampleStores /\ resp = Idle /\ calls = NoCalls

NextConcurrent ==
    \/ \E s \in Slots, inp \in ConcurrentInputs : CallStart(s, inp)
    \/ \E s \in Slots : CallHistory(s)
    \/ \E s \in Slots, o \in ConcurrentOrders : CallCold(s, o)
    \/ \E s \in Slots : CallProfile(s)
    \/ \E s \in Slots, o \in ConcurrentOrders : CallCandidates(s, o)
    \/ \E s \in Slots, r \in ConcurrentDraws : CallScore(s, r)
    \/ \E s \in Slots : CallReturn(s)

\* two recommend_books calls whose steps interleave
SpecConcurrent == InitConcurrent /\ [][NextConcurrent]_vars

-----------------------------------------------------------------------------
(* Properties *)

\* the response in resp is the outcome of a recommend_books call
Recommended == resp.op = "get_recommendations" /\ resp.user_id \in Users

Personalized == Recommended /\ resp.path = "personalized"

ColdStart == Recommended /\ resp.path = "cold_start"

ItemTotal(item) ==
    RSum(<<item.terms.genre, item.terms.author, item.terms.rating, item.terms.page,
           item.terms.novelty, item.terms.randomness>>)

\* readings of `user_id` whose status is in `statuses`
ReadingsOf(user_id, statuses) ==
    {i \in 1..Len(readings) : readings[i].user_id = user_id /\ readings[i].status \in statuses}

PositionIn(s, x) == CHOOSE i \in 1..Len(s) : s[i] = x

\* C1: every score the scorer returns is >= 0, and it is the sum of the six terms
\* floored at 0 once: a negative term lowers a positive total, a negative total is 0.
C1_ScoreFloorOnTotal ==
    Personalized =>
        \A i \in 1..Len(resp.items) :
            LET item == resp.items[i]
                total == ItemTotal(item)
            IN  /\ RLe(RZero, item.score)
                /\ item.score = IF RLt(total, RZero) THEN RZero ELSE total

\* one response holds an item whose negative total was floored to 0 and an item whose
\* negative novelty term was kept inside a positive total
C1_Witness ==
    /\ Personalized
    /\ \E i \in 1..Len(resp.items) :
          RLt(ItemTotal(resp.items[i]), RZero) /\ resp.items[i].score = RZero
    /\ \E i \in 1..Len(resp.items) :
          /\ RLt(resp.items[i].terms.novelty, RZero)
          /\ RLt(RZero, resp.items[i].score)
          /\ resp.items[i].score = ItemTotal(resp.items[i])

\* C2: the cold-start path is taken exactly when the user has no reading or completed
\* interaction; on the personalized path the profile is built from exactly those
\* interactions, whatever add_reading / update_reading calls produced the store.
C2_ColdStartIffNoHistory ==
    Recommended =>
        LET qualifying == ReadingsOf(resp.user_id, {"reading", "completed"})
        IN  /\ resp.path = "cold_start" <=> qualifying = {}
            /\ resp.path = "personalized" <=> qualifying # {}
            /\ resp.path = "personalized" =>
                  /\ Val(resp.prefs).total_books = Cardinality(qualifying)
                  /\ DOMAIN Val(resp.prefs).genres =
                        UNION {Range(Books[readings[i].book_id].genres) : i \in qualifying}

\* a user holding only want_to_read and abandoned interactions gets the cold-start path
C2_Witness ==
    /\ ColdStart
    /\ ReadingsOf(resp.user_id, {"abandoned"}) # {}
    /\ ReadingsOf(resp.user_id, {"want_to_read"}) # {}

\* C3: the personalized result is ordered by score, highest first, and two returned
\* candidates with equal scores keep the order in which the candidate source
\* delivered them.
C3_RankedStable ==
    Personalized =>
        \A i, j \in 1..Len(resp.items) :
            i < j =>
                /\ ~RLt(resp.items[i].score, resp.items[j].score)
                /\ resp.items[i].score = resp.items[j].score =>
                      PositionIn(resp.candidates, resp.items[i].book)
                          < PositionIn(resp.candidates, resp.items[j].book)

\* two returned candidates tie, and the one delivered first has the larger id
C3_Witness ==
    /\ Personalized
    /\ \E i, j \in 1..Len(resp.items) :
          /\ i < j
          /\ resp.items[i].score = resp.items[j].score
          /\ RLt(RZero, resp.items[i].score)
          /\ resp.items[i].book > resp.items[j].book

\* books of the cold-start pool: popular, and of a requested genre when genres are named
ColdPool(request) ==
    {b \in BookIds :
        /\ Books[b].average_rating # None /\ Val(Books[b].average_rating) >= 40
        /\ Books[b].ratings_count # None /\ Val(Books[b].ratings_count) >= 100
        /\ TruthyList(request.preferred_genres) =>
              Range(Books[b].genres) \cap Range(Val(request.preferred_genres)) # {}}

\* the user has marked the book reading, completed or abandoned
Marked(user_id, b) ==
    \E i \in ReadingsOf(user_id, {"reading", "completed", "abandoned"}) :
        readings[i].book_id = b

\* the book meets every filter the request gives
PassesFilters(b, request) ==
    /\ request.min_rating # None =>
          /\ Books[b].average_rating # None
          /\ Val(Books[b].average_rating) >= Val(request.min_rating)
    /\ request.max_page_count # None =>
          /\ Books[b].page_count # None
          /\ Val(Books[b].page_count) <= Val(request.max_page_count)
    /\ TruthyList(request.preferred_genres) =>
          Range(Books[b].genres) \cap Range(Val(request.preferred_genres)) # {}

\* the personalized pool as the engine filters it: a filter whose value is falsy is off
PersonalPool(user_id, request) ==
    {b \in BookIds :
        /\ request.exclude_read => ~Marked(user_id, b)
        /\ TruthyNum(request.min_rating) =>
              /\ Books[b].average_rating # None
              /\ Val(Books[b].average_rating) >= Val(request.min_rating)
        /\ TruthyNum(request.max_page_count) =>
              /\ Books[b].page_count # None
              /\ Val(Books[b].page_count) <= Val(request.max_page_count)
        /\ TruthyList(request.preferred_genres) =>
              Range(Books[b].genres) \cap Range(Val(request.preferred_genres)) # {}}

Returned == {resp.items[i].book : i \in 1..Len(resp.items)}

\* C4: for limit >= 1 the call returns exactly min(limit, size of the eligible pool)
\* candidates, on the personalized and on the cold-start path.
C4_ExactlyMinLimitPool ==
    Recommended =>
        Len(resp.items) =
            Min2(resp.request.limit,
                 IF resp.path = "personalized"
                 THEN Cardinality(PersonalPool(resp.user_id, resp.request))
                 ELSE Cardinality(ColdPool(resp.request)))

\* C5: on the personalized path a book the user marked abandoned, reading or completed
\* is no candidate when exclude_read is set; a book that meets the filters is a
\* candidate when the flag is off, and when the user has at most marked it want_to_read.
C5_ExclusionOfMarked ==
    Personalized =>
        \A b \in BookIds :
            /\ resp.request.exclude_read /\ Marked(resp.user_id, b)
                  => b \notin Range(resp.candidates)
            /\ PassesFilters(b, resp.request)
                  /\ (~resp.request.exclude_read \/ ~Marked(resp.user_id, b))
                  => b \in Range(resp.candidates)

\* with exclusion on, an abandoned book is left out and a want_to_read book is a candidate
C5_Witness ==
    /\ Personalized
    /\ resp.request.exclude_read
    /\ \E i \in ReadingsOf(resp.user_id, {"abandoned"}) :
          readings[i].book_id \notin Range(resp.candidates)
    /\ \E i \in ReadingsOf(resp.user_id, {"want_to_read"}) :
          readings[i].book_id \in Range(resp.candidates)

\* C6: every candidate the personalized path returns honours the filters the request
\* gives: rating >= min_rating, pages <= max_page_count, a genre of preferred_genres.
C6_ReturnedHonourFilters ==
    Personalized => \A b \in Returned : PassesFilters(b, resp.request)

\* C7: every cold-start item has rating >= 4.0 and ratings count >= 100 (and a requested
\* genre when genres are named), the items are in descending rating order, and no
\* eligible book left out is rated higher than a returned one.
C7_ColdStartTopRated ==
    ColdStart =>
        /\ Returned \subseteq ColdPool(resp.request)
        /\ \A i, j \in 1..Len(resp.items) :
              i < j => Val(Books[resp.items[i].book].average_rating)
                          >= Val(Books[resp.items[j].book].average_rating)
        /\ \A b \in ColdPool(resp.request) \ Returned : \A c \in Returned :
              Val(Books[b].average_rating) <= Val(Books[c].average_rating)

\* a cold-start call with genres named returns the higher rated book of its pool and
\* leaves the lower rated one out
C7_Witness ==
    /\ ColdStart
    /\ TruthyList(resp.request.preferred_genres)
    /\ Len(resp.items) >= 1
    /\ \E b \in ColdPool(resp.request) \ Returned :
          Val(Books[b].average_rating) < Val(Books[resp.items[1].book].average_rating)

\* C8 as stated: a cold-start score is the decimal value rating / 5 (0.92 for 4.6), with
\* the two fixed reasons.
C8_ScoreIsDecimalQuotient ==
    ColdStart =>
        \A i \in 1..Len(resp.items) :
            /\ resp.items[i].score
                  = DecimalQuotients[Val(Books[resp.items[i].book].average_rating)]
            /\ resp.items[i].reasons = ColdReasons

\* C8 as amended: a cold-start score is the binary64 quotient of the rating by 5.0, which
\* is the decimal value rating / 5 or a double next to it (for 4.6 the double below
\* 0.92, for 4.0 exactly 0.8), with the two fixed reasons in their order.
C8_ScoreIsFloatQuotient ==
    ColdStart =>
        \A i \in 1..Len(resp.items) :
            LET t == Val(Books[resp.items[i].book].average_rating)
                d == DecimalQuotients[t]
            IN  /\ resp.items[i].score = RatingQuotients[t]
                /\ resp.items[i].score \in {d, FPred(d), FSucc(d)}
                /\ t = 46 => resp.items[i].score = FPred(d)
                /\ t = 40 => resp.items[i].score = d
                /\ resp.items[i].reasons
                      = <<"Popular and highly rated book",
                          "Great for discovering new preferences">>

\* a cold-start response holds a book rated 4.6 and a book rated 4.0
C8_Witness ==
    /\ ColdStart
    /\ \E i \in 1..Len(resp.items) : Val(Books[resp.items[i].book].average_rating) = 46
    /\ \E i \in 1..Len(resp.items) : Val(Books[resp.items[i].book].average_rating) = 40

LevelStep(a, b) ==
    /\ a.genre_similarity >= b.genre_similarity
    /\ a.author_similarity >= b.author_similarity
    /\ a.rating_similarity >= b.rating_similarity
    /\ a.page_count_similarity >= b.page_count_similarity
    /\ a.randomness < b.randomness

\* C10: from same_old to completely_new the genre, author, rating and page-count
\* coefficients never increase and the randomness coefficient strictly increases:
\* the coefficients a request was scored with stand in that relation to those of
\* the level before and of the level after the request's level.
C10_WeightsMonotone ==
    Personalized =>
        \A l \in 1..(Len(ComfortLevels) - 1) :
            /\ ComfortLevels[l] = resp.request.comfort_level =>
                   LevelStep(Val(resp.weights),
                             calculate_comfort_level_weights(ComfortLevels[l + 1]))
            /\ ComfortLevels[l + 1] = resp.request.comfort_level =>
                   LevelStep(calculate_comfort_level_weights(ComfortLevels[l]),
                             Val(resp.weights))

\* a request at the balanced level was scored with that level's coefficients,
\* which differ from both neighbours' in randomness
C10_Witness ==
    /\ Personalized
    /\ resp.request.comfort_level = "balanced"
    /\ resp.items # <<>>
    /\ Val(resp.weights).randomness > calculate_comfort_level_weights("comfort_zone").randomness
    /\ Val(resp.weights).randomness < calculate_comfort_level_weights("adventurous").randomness

\* C11: completely_new is the only comfort level whose novelty coefficient is
\* negative: a request was scored with a negative novelty coefficient exactly when
\* its level is completely_new, and the other four levels' coefficients are >= 0.
C11_OnlyCompletelyNewNegative ==
    Personalized =>
        /\ Val(resp.weights).novelty_penalty < 0
              <=> resp.request.comfort_level = "completely_new"
        /\ resp.request.comfort_level # "completely_new"
              => Val(resp.weights).novelty_penalty >= 0

\* a completely_new request whose novelty term came out negative for a returned book,
\* the coefficient being the level's own
C11_Witness ==
    /\ Personalized
    /\ resp.request.comfort_level = "completely_new"
    /\ Val(resp.weights).novelty_penalty < 0
    /\ \E i \in 1..Len(resp.items) : RLt(resp.items[i].terms.novelty, RZero)

\* the response in resp is the outcome of an extract_user_preferences call that
\* built a profile
Extracted == resp.op = "extract_user_preferences" /\ resp.prefs # None

\* the response in resp is the outcome of a score_book_similarity call
Scored == resp.op = "score_book_similarity"

\* the per-interaction weight as the claim states it, in halves
StatedWeight(rating) ==
    IF rating # None /\ Val(rating) >= 40 THEN 4
    ELSE IF rating # None /\ Val(rating) <= 20 THEN 1
    ELSE 2

\* the accumulated weight of `name` as the claim states it
StatedCount(history, field, name) ==
    SumSeq([i \in 1..Len(history) |->
               IF name \in Range(Books[history[i].book_id][field])
               THEN StatedWeight(history[i].rating) ELSE 0])

\* C12: every genre and author of every interaction's book gets the interaction's
\* weight (2.0 for a rating >= 4.0, 0.5 for a rating <= 2.0, else 1.0, 1.0 without a
\* rating), and each accumulated weight is the sum of these contributions.
C12_WeightByRating ==
    Extracted =>
        \A field \in {"genres", "authors"} :
            LET counts == Val(resp.prefs)[field]
            IN  /\ DOMAIN counts = UNION {Range(Books[resp.history[i].book_id][field]) :
                                             i \in 1..Len(resp.history)}
                /\ \A name \in DOMAIN counts :
                      counts[name] = StatedCount(resp.history, field, name)

\* the sum of the terms other than randomness
NonRandom(terms) ==
    RSum(<<terms.genre, terms.author, terms.rating, terms.page, terms.novelty>>)

\* a profile with the single genre G and mean rating r, and a candidate whose only
\* genre is G, rated r, without authors and without a page count
SingleGenreCase ==
    /\ Scored
    /\ Cardinality(DOMAIN resp.prefs.genres) = 1
    /\ Len(resp.book.genres) = 1
    /\ resp.book.genres[1] \in DOMAIN resp.prefs.genres
    /\ resp.book.average_rating # None
    /\ Rat(Val(resp.book.average_rating), 10) = resp.prefs.avg_rating
    /\ resp.book.authors = <<>>
    /\ resp.book.page_count = None

\* C13: in that case the non-random portion of the score is the genre coefficient
\* plus the rating coefficient (0.9 at balanced): the genre and rating terms are the
\* full coefficients and the novelty, author and page terms contribute nothing.
C13_GenrePlusRating ==
    SingleGenreCase =>
        /\ resp.terms.genre = Tenths(resp.weights.genre_similarity)
        /\ resp.terms.rating = Tenths(resp.weights.rating_similarity)
        /\ resp.terms.novelty = RZero /\ resp.terms.author = RZero /\ resp.terms.page = RZero
        /\ resp.terms.fired = {"genre", "rating", "randomness"}
        /\ NonRandom(resp.terms) = Rat(resp.weights.genre_similarity
                                          + resp.weights.rating_similarity, 10)
        /\ resp.comfort_level = "balanced" => NonRandom(resp.terms) = Rat(9, 10)
        /\ resp.score = RAdd(NonRandom(resp.terms), resp.terms.randomness)

\* the case at the balanced level with a non-zero draw: 0.9 plus the random share
C13_Witness ==
    /\ SingleGenreCase
    /\ resp.comfort_level = "balanced"
    /\ resp.rnd > 0
    /\ NonRandom(resp.terms) = Rat(9, 10)
    /\ RLt(Rat(9, 10), resp.score)

\* 0 <= s <= 1 for a rational or a positive double s
InUnitInterval(s) ==
    IF "mant" \in DOMAIN s
    THEN s.exp < 0 \/ (s.exp = 0 /\ PowerOfTwo(s.mant))
    ELSE RLe(RZero, s) /\ RLe(s, RInt(1))

\* C14: the similarity_score of a response, the mean of the returned candidates'
\* scores, lies between 0 and 1.
C14_SimilarityInUnitInterval ==
    Recommended /\ resp.status = 200 => InUnitInterval(Val(resp.similarity_score))

\* max(0, x)
Floor0(x) == IF RLt(x, RZero) THEN RZero ELSE x

\* the score the scored candidate would have with every other term and the draw
\* equal and no novelty term
ScoreWithoutNovelty == Floor0(RSub(ItemTotal(resp), resp.terms.novelty))

\* C15: for a candidate with a genre absent from the profile the novelty term never
\* raises the score at same_old, comfort_zone, balanced and adventurous, and never
\* lowers it at completely_new.
C15_NoveltyPenaltyLowers ==
    Scored /\ (\E g \in Range(resp.book.genres) : g \notin DOMAIN resp.prefs.genres) =>
        IF resp.comfort_level = "completely_new"
        THEN RLe(ScoreWithoutNovelty, resp.score)
        ELSE RLe(resp.score, ScoreWithoutNovelty)

\* C16: the rating term is added exactly when the candidate's average rating and the
\* profile's mean rating are both present, the page term exactly when the candidate's
\* page count and the profile's mean page count are both present; a present value
\* (an average rating of 0 included) fires the term with its formula, an absent one
\* skips it.
C16_TermsFireWhenPresent ==
    Scored =>
        LET rated == resp.book.average_rating # None
            paged == resp.book.page_count # None /\ resp.prefs.avg_page_count # None
            rating_diff == RAbs(RSub(Rat(Val(resp.book.average_rating), 10),
                                     resp.prefs.avg_rating))
            pages == RInt(Val(resp.book.page_count))
            page_diff == RAbs(RSub(pages, Val(resp.prefs.avg_page_count)))
        IN  /\ "rating" \in resp.terms.fired <=> rated
            /\ "page" \in resp.terms.fired <=> paged
            /\ resp.terms.rating =
                  IF rated
                  THEN RMul(RSub(RInt(1), RDiv(rating_diff, RInt(5))),
                            Tenths(resp.weights.rating_similarity))
                  ELSE RZero
            /\ resp.terms.page =
                  IF paged
                  THEN RMul(RSub(RInt(1),
                                 RDiv(page_diff, RMax(pages, Val(resp.prefs.avg_page_count)))),
                            Tenths(resp.weights.page_count_similarity))
                  ELSE RZero

\* the candidate's genres (authors) that the profile holds, in the candidate's order
FoundIn(names, counts) ==
    LET found(x) == x \in DOMAIN counts IN SelectSeq(names, found)

\* the candidate's genres that the profile does not hold, in the candidate's order
AbsentFrom(names, counts) ==
    LET absent(x) == x \notin DOMAIN counts IN SelectSeq(names, absent)

\* the reason list in the stated order; new_genres_reason says whether the list ends
\* with the new-genres reason
StatedReasons(new_genres_reason) ==
    LET g == FoundIn(resp.book.genres, resp.prefs.genres)
        a == FoundIn(resp.book.authors, resp.prefs.authors)
    IN  [i \in 1..Len(g) |-> <<"Matches your favorite genre: ", g[i]>>]
        \o [i \in 1..Len(a) |-> <<"By author you've enjoyed: ", a[i]>>]
        \o (IF "rating" \in resp.terms.fired /\ Val(resp.book.average_rating) >= 40
            THEN << <<"Highly rated book">> >> ELSE <<>>)
        \o (IF new_genres_reason
            THEN << <<"Explores new genres: ",
                      AbsentFrom(resp.book.genres, resp.prefs.genres)>> >>
            ELSE <<>>)

\* C17 as stated: the reasons are the genre reasons, the author reasons, the
\* highly-rated reason iff the rating term fired and the rating is >= 4.0, and the
\* new-genres reason iff the candidate has a genre absent from the profile and the
\* novelty coefficient is negative, in that order.
C17_ReasonsInOrder ==
    Scored =>
        resp.reasons =
            StatedReasons(/\ AbsentFrom(resp.book.genres, resp.prefs.genres) # <<>>
                          /\ resp.weights.novelty_penalty < 0)

\* C17 as amended: the same list, the new-genres reason being added iff moreover the
\* profile holds at least one genre.
C17_ReasonsInOrderWithProfileGenres ==
    Scored =>
        resp.reasons =
            StatedReasons(/\ AbsentFrom(resp.book.genres, resp.prefs.genres) # <<>>
                          /\ resp.weights.novelty_penalty < 0
                          /\ DOMAIN resp.prefs.genres # {})

\* a completely_new score with all four kinds of reason, from a non-zero draw
C17_Witness ==
    /\ Scored
    /\ resp.comfort_level = "completely_new"
    /\ resp.rnd > 0
    /\ Len(resp.reasons) = 4
    /\ resp.reasons[1][1] = "Matches your favorite genre: "
    /\ resp.reasons[2][1] = "By author you've enjoyed: "
    /\ resp.reasons[3] = <<"Highly rated book">>
    /\ resp.reasons[4][1] = "Explores new genres: "

\* C20: with exclude_read set, no returned book is one the requesting user has marked
\* completed, reading or abandoned, on the personalized and on the cold-start path.
C20_NoMarkedBookReturned ==
    Recommended /\ resp.request.exclude_read =>
        \A b \in Returned : ~Marked(resp.user_id, b)

\* the call in slot s has returned its list
Done(s) == calls[s].pc = "done"

\* C18: recommend_books only reads the store and keeps nothing between calls: when a
\* call returns, the reading list is what it was when the call began, and the list
\* returned is the one the call computes on its own from that reading list, whatever
\* steps of another call ran in between
C18_ReadOnlyAndIsolated ==
    \A s \in Slots : Done(s) =>
        /\ readings = calls[s].store
        /\ LET c == calls[s]
               alone == recommend_books(c.store, c.inp.user_id, c.inp.request, c.order, c.rnd)
           IN  c.path = alone.path /\ c.items = alone.items

\* a personalized call returns a non-empty list after a call for the other user, with
\* another history, has read its history and not yet built its profile
C18_Witness ==
    \E s, t \in Slots :
        /\ Done(s) /\ calls[s].path = "personalized" /\ calls[s].items # <<>>
        /\ calls[t].pc = "profile"
        /\ calls[t].inp.user_id # calls[s].inp.user_id

\* the call in slot s has returned the cold-start list
ColdDone(s) == Done(s) /\ calls[s].path = "cold_start"

\* the two calls asked for the same limit and the same preferred genres against the
\* same store, whose popularity query delivers equally rated rows in the same order
SameColdQuery(s, t) ==
    /\ calls[s].store = calls[t].store
    /\ calls[s].order = calls[t].order
    /\ calls[s].inp.request.limit = calls[t].inp.request.limit
    /\ calls[s].inp.request.preferred_genres = calls[t].inp.request.preferred_genres

WeightsAtLeastHalf(counts) == \A name \in DOMAIN counts : counts[name] >= 1

\* the profile just extracted has no genre or author weight under 0.5
ExtractedWeightsAtLeastHalf ==
    Extracted => /\ WeightsAtLeastHalf(Val(resp.prefs).genres)
                 /\ WeightsAtLeastHalf(Val(resp.prefs).authors)

\* the divisor of term t in the scoring just done is positive, if the term fired
PositiveDivisor(t) ==
    Scored /\ resp.terms.divisors[t] # None => RLt(RZero, Val(resp.terms.divisors[t]))

C22_OneEntryPerUserBook ==
    \A i, j \in 1..Len(readings) :
        readings[i].user_id = readings[j].user_id /\ readings[i].book_id = readings[j].book_id
            => i = j

====
